---- MODULE Spec2Model ----
(***************************************************************************)
(* Model of summarize_invoices.py: amount extraction, discount             *)
(* reconciliation, the duplicate gate, the interactive discount resolver   *)
(* and the final report of one run over a directory of invoices.           *)
(*                                                                         *)
(* Amounts are Python floats in the source.  They are modelled as          *)
(* fixed-point integers counting 10^-FracDigits currency units, which      *)
(* represents every value the modelled texts can produce exactly.          *)
(***************************************************************************)
EXTENDS Integers, Sequences, FiniteSets, TLC

\* ------------------------------------------------------------------------
\* Bounds of the model
\* ------------------------------------------------------------------------
MaxGroups == 1      \* 3-digit groups of a numeral in SpecNumeral
MaxMatches == 4     \* amount tokens of a text in SpecAnalyze
FracDigits == 5     \* fractional digits of the fixed-point amounts

RoundDigits == 2    \* round(x, 2) and the :.2f format

RECURSIVE Pow10(_)
Pow10(n) == IF n = 0 THEN 1 ELSE 10 * Pow10(n - 1)

Unit == Pow10(FracDigits)                  \* 1.00000
Cent == Pow10(FracDigits - RoundDigits)    \* 0.01000

\* Optional values: None, or a present value x.
None == <<>>
Some(x) == <<x>>

\* ------------------------------------------------------------------------
\* Characters and numerals.  A string is a sequence of one-character strings.
\* ------------------------------------------------------------------------
Digits == {"0", "1", "2", "3", "4", "5", "6", "7", "8", "9"}

DigitVal(c) ==
    CASE c = "0" -> 0 [] c = "1" -> 1 [] c = "2" -> 2 [] c = "3" -> 3
      [] c = "4" -> 4 [] c = "5" -> 5 [] c = "6" -> 6 [] c = "7" -> 7
      [] c = "8" -> 8 [] c = "9" -> 9

\* str.replace(old, '') and str.replace(old, new) for one-character strings
StrRemove(s, old) == SelectSeq(s, LAMBDA c : c # old)
StrReplace(s, old, new) == [i \in 1..Len(s) |-> IF s[i] = old THEN new ELSE s[i]]

\* cleaned_num_str = num_str.replace('.', '').replace(',', '.')
cleaned_num_str(num_str) == StrReplace(StrRemove(num_str, "."), ",", ".")

RECURSIVE StripLeading(_)
StripLeading(s) ==
    IF s # <<>> /\ Head(s) = "0" THEN StripLeading(Tail(s)) ELSE s

RECURSIVE StripTrailing(_)
StripTrailing(s) ==
    IF s # <<>> /\ s[Len(s)] = "0" THEN StripTrailing(SubSeq(s, 1, Len(s) - 1)) ELSE s

\* float(s) for s made of digits and '.': a ValueError (ok = FALSE) when s has
\* more than one '.' or no digit; otherwise the value, kept as its decimal
\* expansion without leading and trailing zeros (ip '.' fp).
ValueError == [ok |-> FALSE, ip |-> <<>>, fp |-> <<>>]

PyFloat(s) ==
    LET dots == {i \in 1..Len(s) : s[i] = "."}
        p    == IF dots = {} THEN Len(s) + 1 ELSE CHOOSE i \in dots : TRUE
    IN  IF Cardinality(dots) > 1 \/ Len(s) - Cardinality(dots) = 0
           \/ \E i \in 1..Len(s) : s[i] \notin Digits \cup {"."}
        THEN ValueError
        ELSE [ok |-> TRUE,
              ip |-> StripLeading(SubSeq(s, 1, p - 1)),
              fp |-> StripTrailing(SubSeq(s, p + 1, Len(s)))]

RECURSIVE DigitsToNat(_)
DigitsToNat(s) ==
    IF s = <<>> THEN 0 ELSE 10 * DigitsToNat(SubSeq(s, 1, Len(s) - 1)) + DigitVal(s[Len(s)])

\* The fixed-point integer of a parsed value (exact when it has at most
\* FracDigits fractional digits; every modelled text satisfies that).
Units(v) ==
    LET k == IF Len(v.fp) < FracDigits THEN Len(v.fp) ELSE FracDigits
    IN  DigitsToNat(v.ip) * Unit + DigitsToNat(SubSeq(v.fp, 1, k)) * Pow10(FracDigits - k)

\* round(x, 2): to the nearest multiple of 0.01.  On an exact decimal tie the
\* source follows the binary value of the float; the model takes the even
\* neighbour, and no modelled text produces a tie.
Round2(x) ==
    LET q == x \div Cent
        r == x - q * Cent
    IN  IF 2 * r < Cent THEN q * Cent
        ELSE IF 2 * r > Cent THEN (q + 1) * Cent
        ELSE IF q % 2 = 0 THEN q * Cent ELSE (q + 1) * Cent

\* ------------------------------------------------------------------------
\* Sequences of amounts
\* ------------------------------------------------------------------------
RECURSIVE SeqSum(_)
SeqSum(s) == IF s = <<>> THEN 0 ELSE Head(s) + SeqSum(Tail(s))

\* insertion of x into a descending sequence, after the elements equal to it
RECURSIVE InsertDesc(_, _)
InsertDesc(x, s) ==
    IF s = <<>> THEN <<x>>
    ELSE IF Head(s) >= x THEN <<Head(s)>> \o InsertDesc(x, Tail(s))
    ELSE <<x>> \o s

RECURSIVE InsertAsc(_, _)
InsertAsc(x, s) ==
    IF s = <<>> THEN <<x>>
    ELSE IF Head(s) <= x THEN <<Head(s)>> \o InsertAsc(x, Tail(s))
    ELSE <<x>> \o s

RECURSIVE SortAsc(_)
SortAsc(s) ==
    IF s = <<>> THEN <<>> ELSE InsertAsc(s[Len(s)], SortAsc(SubSeq(s, 1, Len(s) - 1)))

\* list.sort(reverse=True)
RECURSIVE SortDesc(_)
SortDesc(s) ==
    IF s = <<>> THEN <<>> ELSE InsertDesc(s[Len(s)], SortDesc(SubSeq(s, 1, Len(s) - 1)))

Range(s) == {s[i] : i \in 1..Len(s)}
MaxOf(s) == CHOOSE x \in Range(s) : \A y \in Range(s) : y <= x

\* ------------------------------------------------------------------------
\* analyze_invoice_text
\* ------------------------------------------------------------------------
STATUS_OK == "OK"
STATUS_APPLIED_DISCOUNT == "APPLIED_DISCOUNT"
STATUS_NEEDS_INTERACTION == "NEEDS_INTERACTION"
STATUS_NO_AMOUNT == "NO_AMOUNT"

InvoiceData(total, notes, status, positive_amounts, discounts) ==
    [total |-> total, notes |-> notes, status |-> status,
     positive_amounts |-> positive_amounts, discounts |-> discounts]

\* A note: its fixed wording, the amounts it lists and the amounts it names
\* as applied (both as printed by the :.2f format).
Note(text, listed, applied) == [text |-> text, listed |-> listed, applied |-> applied]
Fmt2(d) == Round2(d)
FmtAll(ds) == [i \in 1..Len(ds) |-> Fmt2(ds[i])]

\* pattern.finditer(content): the matches of the amount pattern in reading
\* order, each with its sign group and its numeral (num_before or num_after).
Matches(content) == content.matches

\* The loop over the matches: a signed numeral is appended to discounts, an
\* unsigned one to positive_amounts, one that float() rejects is skipped.
RECURSIVE ExtractAmounts(_)
ExtractAmounts(ms) ==
    IF ms = <<>> THEN [positive_amounts |-> <<>>, discounts |-> <<>>]
    ELSE LET rest   == ExtractAmounts(SubSeq(ms, 1, Len(ms) - 1))
             m      == ms[Len(ms)]
             parsed == PyFloat(cleaned_num_str(m.num_str))
         IN  IF ~parsed.ok THEN rest
             ELSE IF m.sign
             THEN [rest EXCEPT !.discounts = Append(@, Units(parsed))]
             ELSE [rest EXCEPT !.positive_amounts = Append(@, Units(parsed))]

\* calculated_total = round(main_total - discounts[0], 2)
calculated_total_all_discounts(positive_amounts, discounts) ==
    Round2(positive_amounts[1] - SeqSum(discounts))
calculated_total(positive_amounts, discounts) ==
    Round2(positive_amounts[1] - discounts[1])

\* calculated_total in [round(p, 2) for p in positive_amounts]
matches_a_positive(total, positive_amounts) ==
    \E i \in 1..Len(positive_amounts) : Round2(positive_amounts[i]) = total

\* return InvoiceData(None, "No amount found", STATUS_NO_AMOUNT, [], [])
no_amount_result_zero_total ==
    InvoiceData(Some(0), Note("No amount found", <<>>, <<>>), STATUS_NO_AMOUNT, <<>>, <<>>)
no_amount_result ==
    InvoiceData(None, Note("No amount found", <<>>, <<>>), STATUS_NO_AMOUNT, <<>>, <<>>)

\* return InvoiceData(positive_amounts[0], "", STATUS_OK, positive_amounts, discounts)
clean_result(positive_amounts, discounts) ==
    InvoiceData(Some(positive_amounts[1]), Note("", <<>>, <<>>), STATUS_OK,
                positive_amounts, discounts)

\* the return of the branch in which the subtraction matches a positive amount
applied_result(calculated, positive_amounts, discounts) ==
    InvoiceData(Some(calculated),
                Note("Discounts found: {}. Applied -{}.",
                     FmtAll(discounts), <<Fmt2(discounts[1])>>),
                STATUS_APPLIED_DISCOUNT, positive_amounts, discounts)

\* the return of the branch in which it matches none
needs_interaction_result_no_total(main_total, positive_amounts, discounts) ==
    InvoiceData(None,
                Note("Discounts found: {}. WARNING: Could not automatically apply.",
                     FmtAll(discounts), <<>>),
                STATUS_NEEDS_INTERACTION, positive_amounts, discounts)
needs_interaction_result(main_total, positive_amounts, discounts) ==
    InvoiceData(Some(main_total),
                Note("Discounts found: {}. WARNING: Could not automatically apply.",
                     FmtAll(discounts), <<>>),
                STATUS_NEEDS_INTERACTION, positive_amounts, discounts)

\* The decision on the extracted amounts: the function from its first return on.
reconcile(positive_amounts_in, discounts_in) ==
    IF positive_amounts_in = <<>> THEN no_amount_result
    ELSE
    LET positive_amounts == SortDesc(positive_amounts_in)
        discounts        == SortDesc(discounts_in)
    IN  IF discounts = <<>> THEN clean_result(positive_amounts, discounts)
        ELSE
        LET main_total == positive_amounts[1]
            calculated == calculated_total(positive_amounts, discounts)
        IN  IF matches_a_positive(calculated, positive_amounts)
            THEN applied_result(calculated, positive_amounts, discounts)
            ELSE needs_interaction_result(main_total, positive_amounts, discounts)

analyze_invoice_text(content) ==
    LET e == ExtractAmounts(Matches(content))
    IN  reconcile(e.positive_amounts, e.discounts)

\* ------------------------------------------------------------------------
\* The modelled inputs
\* ------------------------------------------------------------------------
Str(a, b, c, d, e, f) == SelectSeq(<<a, b, c, d, e, f>>, LAMBDA ch : ch # "")
Match(sign, num_str) == [sign |-> sign, num_str |-> num_str]

\* Invoice base names in ascending order; f.pdf is converted to f.txt.
FileNames == <<"a", "b", "c">>
Files == Range(FileNames)

N100 == Str("1", "0", "0", ",", "0", "0")
N90 == Str("9", "0", ",", "0", "0", "")
N20 == Str("2", "0", ",", "0", "0", "")
N10 == Str("1", "0", ",", "0", "0", "")
N5 == Str("5", ",", "0", "0", "", "")
N3 == Str("3", ",", "0", "0", "", "")

\* The texts the converter can produce: bytes names the byte content, matches
\* what the amount pattern finds in it.
TextPool ==
    { [bytes |-> "no amount",  matches |-> <<>>],
      [bytes |-> "clean",      matches |-> <<Match(FALSE, N20), Match(FALSE, N100)>>],
      [bytes |-> "one rebate", matches |-> <<Match(FALSE, N100), Match(TRUE, N10),
                                             Match(FALSE, N90)>>],
      [bytes |-> "two rebates", matches |-> <<Match(FALSE, N100), Match(TRUE, N3),
                                              Match(TRUE, N5)>>],
      [bytes |-> "unmatched rebate", matches |-> <<Match(TRUE, N10), Match(FALSE, N100)>>] }

\* hashlib.sha256(content).hexdigest(), taken as collision-free
sha256(content) == <<"sha256", content.bytes>>

\* The orders in which os.listdir can report a directory: the order is
\* arbitrary; the ascending and the descending one are taken.
Reverse(s) == [i \in 1..Len(s) |-> s[Len(s) + 1 - i]]
Listings(S) ==
    LET ascending == SelectSeq(FileNames, LAMBDA f : f \in S)
    IN  {ascending, Reverse(ascending)}

\* ------------------------------------------------------------------------
\* State
\* ------------------------------------------------------------------------
VARIABLES
    pc,               \* position of the run
    pdf_dir,          \* base names of the PDFs in the invoice directory
    listing,          \* order in which os.listdir reports the files
    ci,               \* number of PDFs the conversion loop has handled
    temp_dir,         \* the text files: base name -> content
    hashes,           \* sequence of [hash, filenames], in insertion order
    gi,               \* position of the loop over hashes.items()
    duplicates_found,
    deleted,          \* the PDFs removed by the duplicate dialogue, in order
    results,          \* first pass: sequence of <<filename, invoice_data>>
    final_results,    \* second pass: sequence of [file, total, notes]
    rstate,           \* the resolver's prompt loop
    final_total,      \* the resolver's result, None until fixed
    notes,
    grand_total,
    invoice_count,
    exit_code,        \* None while running, Some(0) after sys.exit(0)
    out,              \* the last message printed to the operator
    answer,           \* the last line read from the operator
    num_strs,         \* SpecNumeral: the numerals to normalise
    amounts           \* SpecNumeral: the values parsed so far

vars == <<pc, pdf_dir, listing, ci, temp_dir, hashes, gi, duplicates_found,
          deleted, results, final_results, rstate, final_total, notes, grand_total,
          invoice_count, exit_code, out, answer, num_strs, amounts>>

convVars == <<listing>>
gateVars == <<hashes, gi, duplicates_found, deleted>>
passVars == <<results, final_results>>
resolverVars == <<rstate, final_total, notes>>
reportVars == <<grand_total, invoice_count>>
numVars == <<num_strs, amounts>>

NoNote == Note("", <<>>, <<>>)

\* what every specification starts from, apart from its inputs
InitRest ==
    /\ ci = 0
    /\ hashes = <<>>
    /\ gi = 0
    /\ duplicates_found = FALSE
    /\ deleted = <<>>
    /\ results = <<>>
    /\ final_results = <<>>
    /\ rstate = "Idle"
    /\ final_total = None
    /\ notes = NoNote
    /\ grand_total = 0
    /\ invoice_count = 0
    /\ exit_code = None
    /\ out = ""
    /\ answer = <<>>

Init ==
    /\ pc = "convert"
    /\ pdf_dir \in SUBSET Files
    /\ listing \in Listings(pdf_dir)
    /\ temp_dir = <<>>
    /\ num_strs = <<>>
    /\ amounts = <<>>
    /\ InitRest

\* ------------------------------------------------------------------------
\* convert_pdfs_to_text
\* ------------------------------------------------------------------------
\* No PDF in the directory: sys.exit(0) before anything is converted.
ConvertNone ==
    /\ pc = "convert"
    /\ listing = <<>>
    /\ pc' = "exit"
    /\ exit_code' = Some(0)
    /\ out' = "No PDF files found"
    /\ UNCHANGED <<pdf_dir, convVars, ci, temp_dir, gateVars, passVars, resolverVars,
                   reportVars, answer, numVars>>

\* what pdftotext does with one PDF: it writes some text, or fails
Conversions == [ok : {TRUE}, text : TextPool] \cup {[ok |-> FALSE, text |-> <<>>]}

\* One round of the loop: pdftotext writes the text file, or fails and the
\* failure is only logged.
ConvertOne(conv) ==
    /\ pc = "convert"
    /\ ci < Len(listing)
    /\ LET filename == listing[ci + 1]
       IN  temp_dir' = IF conv.ok THEN (filename :> conv.text) @@ temp_dir ELSE temp_dir
    /\ ci' = ci + 1
    /\ pc' = IF ci + 1 = Len(listing) THEN "gate" ELSE "convert"
    /\ out' = IF ci + 1 = Len(listing) THEN "Conversion complete." ELSE out
    /\ UNCHANGED <<pdf_dir, convVars, gateVars, passVars, resolverVars, reportVars,
                   exit_code, answer, numVars>>

\* ------------------------------------------------------------------------
\* detect_and_handle_duplicates
\* ------------------------------------------------------------------------
\* os.listdir(text_dir), filtered on '.txt'
TextListing == SelectSeq(listing, LAMBDA f : f \in DOMAIN temp_dir)

\* hashes[file_hash].append(filename), the list created on first use
AddHash(hs, file_hash, filename) ==
    IF \E i \in 1..Len(hs) : hs[i].hash = file_hash
    THEN [i \in 1..Len(hs) |->
            IF hs[i].hash = file_hash
            THEN [hs[i] EXCEPT !.filenames = Append(@, filename)]
            ELSE hs[i]]
    ELSE Append(hs, [hash |-> file_hash, filenames |-> <<filename>>])

\* the first loop: every text file is read and filed under its digest
RECURSIVE HashFiles(_)
HashFiles(names) ==
    IF names = <<>> THEN <<>>
    ELSE LET filename == names[Len(names)]
         IN  AddHash(HashFiles(SubSeq(names, 1, Len(names) - 1)),
                     sha256(temp_dir[filename]), filename)

\* if len(filenames) > 1
IsDuplicateGroupAny(filenames) == Len(filenames) >= 1
IsDuplicateGroup(filenames) == Len(filenames) > 1

BuildHashes ==
    /\ pc = "gate"
    /\ hashes' = HashFiles(TextListing)
    /\ gi' = 1
    /\ duplicates_found' = FALSE
    /\ pc' = "groups"
    /\ UNCHANGED <<pdf_dir, convVars, ci, temp_dir, deleted, passVars, resolverVars,
                   reportVars, exit_code, out, answer, numVars>>

\* One round of the loop over hashes.items(): a group of several files opens
\* the dialogue, any other entry is passed over.
NextGroup ==
    /\ pc = "groups"
    /\ gi <= Len(hashes)
    /\ IF IsDuplicateGroup(hashes[gi].filenames)
       THEN /\ duplicates_found' = TRUE
            /\ out' = "--- DUPLICATE INVOICES DETECTED ---"
            /\ pc' = "dup_yn"
            /\ gi' = gi
       ELSE /\ gi' = gi + 1
            /\ UNCHANGED <<duplicates_found, out, pc>>
    /\ UNCHANGED <<pdf_dir, convVars, ci, temp_dir, hashes, deleted, passVars,
                   resolverVars, reportVars, exit_code, answer, numVars>>

\* str.lower() and str.upper(), on the letters the modelled answers use
LowerChar(c) ==
    CASE c = "Y" -> "y" [] c = "E" -> "e" [] c = "S" -> "s" [] c = "N" -> "n"
      [] c = "O" -> "o" [] c = "X" -> "x" [] OTHER -> c
UpperChar(c) ==
    CASE c = "y" -> "Y" [] c = "e" -> "E" [] c = "s" -> "S" [] c = "n" -> "N"
      [] c = "o" -> "O" [] c = "x" -> "X" [] OTHER -> c
Lower(s) == [i \in 1..Len(s) |-> LowerChar(s[i])]
Upper(s) == [i \in 1..Len(s) |-> UpperChar(s[i])]

YesWords == {<<"y">>, <<"y", "e", "s">>}
NoWords == {<<"n">>, <<"n", "o">>}
YesNoAnswers == {<<"y">>, <<"Y", "E", "S">>, <<"n">>, <<"N", "o">>, <<"x">>, <<>>}

\* int(s): a ValueError unless s is a non-empty run of digits
PyInt(s) ==
    IF s = <<>> \/ \E i \in 1..Len(s) : s[i] \notin Digits
    THEN [ok |-> FALSE, val |-> 0]
    ELSE [ok |-> TRUE, val |-> DigitsToNat(s)]

DelAnswers == {<<"0">>, <<"1">>, <<"2">>, <<"3">>, <<"4">>, <<"x">>, <<>>}

\* "Do you want to delete one of these files? [y/n]"
DupYes(choice) ==
    /\ pc = "dup_yn"
    /\ Lower(choice) \in YesWords
    /\ pc' = "dup_which"
    /\ out' = "Which file do you want to delete?"
    /\ answer' = choice
    /\ UNCHANGED <<pdf_dir, convVars, ci, temp_dir, gateVars, passVars, resolverVars,
                   reportVars, exit_code, numVars>>

DupNo(choice) ==
    /\ pc = "dup_yn"
    /\ Lower(choice) \in NoWords
    /\ pc' = "groups"
    /\ gi' = gi + 1
    /\ out' = "kept"
    /\ answer' = choice
    /\ UNCHANGED <<pdf_dir, convVars, ci, temp_dir, hashes, duplicates_found, deleted,
                   passVars, resolverVars, reportVars, exit_code, numVars>>

DupOtherDefaultsNo(choice) ==
    /\ pc = "dup_yn"
    /\ Lower(choice) \notin YesWords \cup NoWords
    /\ pc' = "groups"
    /\ gi' = gi + 1
    /\ out' = "kept"
    /\ answer' = choice
    /\ UNCHANGED <<pdf_dir, convVars, ci, temp_dir, hashes, duplicates_found, deleted,
                   passVars, resolverVars, reportVars, exit_code, numVars>>

\* any other answer: the loop asks the same question again
DupOther(choice) ==
    /\ pc = "dup_yn"
    /\ Lower(choice) \notin YesWords \cup NoWords
    /\ out' = "Do you want to delete one of these files? [y/n]: "
    /\ answer' = choice
    /\ UNCHANGED <<pc, pdf_dir, convVars, ci, temp_dir, gateVars, passVars, resolverVars,
                   reportVars, exit_code, numVars>>

DupDeleteNoBreak(line) ==
    /\ pc = "dup_which"
    /\ LET del_choice == PyInt(line)
           filenames  == hashes[gi].filenames
       IN  /\ del_choice.ok
           /\ 1 <= del_choice.val /\ del_choice.val <= Len(filenames)
           /\ LET file_to_delete == filenames[del_choice.val]
              IN  IF file_to_delete \in pdf_dir
                  THEN /\ pdf_dir' = pdf_dir \ {file_to_delete}
                       /\ deleted' = Append(deleted, file_to_delete)
                       /\ out' = "Deleted"
                  ELSE /\ UNCHANGED <<pdf_dir, deleted>>
                       /\ out' = "Error: File not found"
    /\ pc' = "dup_yn"
    /\ answer' = line
    /\ UNCHANGED <<convVars, ci, temp_dir, hashes, gi, duplicates_found, passVars,
                   resolverVars, reportVars, exit_code, numVars>>

\* "Your choice: " of the deletion menu
DupDelete(line) ==
    /\ pc = "dup_which"
    /\ LET del_choice == PyInt(line)
           filenames  == hashes[gi].filenames
       IN  /\ del_choice.ok
           /\ 1 <= del_choice.val /\ del_choice.val <= Len(filenames)
           /\ LET file_to_delete == filenames[del_choice.val]
              IN  IF file_to_delete \in pdf_dir
                  THEN /\ pdf_dir' = pdf_dir \ {file_to_delete}
                       /\ deleted' = Append(deleted, file_to_delete)
                       /\ out' = "Deleted"
                  ELSE /\ UNCHANGED <<pdf_dir, deleted>>
                       /\ out' = "Error: File not found"
    /\ pc' = "groups"
    /\ gi' = gi + 1
    /\ answer' = line
    /\ UNCHANGED <<convVars, ci, temp_dir, hashes, duplicates_found, passVars,
                   resolverVars, reportVars, exit_code, numVars>>

DupCancel(line) ==
    /\ pc = "dup_which"
    /\ LET del_choice == PyInt(line)
       IN  del_choice.ok /\ del_choice.val = Len(hashes[gi].filenames) + 1
    /\ pc' = "groups"
    /\ gi' = gi + 1
    /\ out' = "Deletion cancelled."
    /\ answer' = line
    /\ UNCHANGED <<pdf_dir, convVars, ci, temp_dir, hashes, duplicates_found, deleted,
                   passVars, resolverVars, reportVars, exit_code, numVars>>

\* a number outside the menu, or no number: back to the top of the while loop,
\* which asks the y/n question
DupInvalid(line) ==
    /\ pc = "dup_which"
    /\ LET del_choice == PyInt(line)
       IN  IF del_choice.ok
           THEN /\ ~(1 <= del_choice.val /\ del_choice.val <= Len(hashes[gi].filenames) + 1)
                /\ out' = "Invalid choice."
           ELSE out' = "Invalid input. Please enter a number."
    /\ pc' = "dup_yn"
    /\ answer' = line
    /\ UNCHANGED <<pdf_dir, convVars, ci, temp_dir, gateVars, passVars, resolverVars,
                   reportVars, exit_code, numVars>>

GateReturnIgnoringDuplicates ==
    /\ pc = "groups"
    /\ gi > Len(hashes)
    /\ pc' = "analyse"
    /\ out' = "Processing invoices..."
    /\ UNCHANGED <<pdf_dir, convVars, ci, temp_dir, gateVars, passVars, resolverVars,
                   reportVars, exit_code, answer, numVars>>

\* return duplicates_found, and main's test of it: sys.exit(0) when duplicates
\* were found, the analysis otherwise
GateReturn ==
    /\ pc = "groups"
    /\ gi > Len(hashes)
    /\ IF duplicates_found
       THEN /\ pc' = "exit"
            /\ exit_code' = Some(0)
            /\ out' = "Duplicates were found and handled. Please re-run the script"
       ELSE /\ pc' = "analyse"
            /\ out' = "Processing invoices..."
            /\ UNCHANGED exit_code
    /\ UNCHANGED <<pdf_dir, convVars, ci, temp_dir, gateVars, passVars, resolverVars,
                   reportVars, answer, numVars>>

\* ------------------------------------------------------------------------
\* main: the two passes
\* ------------------------------------------------------------------------
\* sorted(invoice_files)
sorted_as_listed(invoice_files) == invoice_files
sorted(invoice_files) == SelectSeq(FileNames, LAMBDA f : f \in Range(invoice_files))

\* One round of the first pass: the next file in filename order is read,
\* analysed and its result appended.
AnalyzeFile ==
    /\ pc = "analyse"
    /\ Len(results) < Len(TextListing)
    /\ LET filename     == sorted(TextListing)[Len(results) + 1]
           invoice_data == analyze_invoice_text(temp_dir[filename])
       IN  results' = Append(results, <<filename, invoice_data>>)
    /\ UNCHANGED <<pc, pdf_dir, convVars, ci, temp_dir, gateVars, final_results,
                   resolverVars, reportVars, exit_code, out, answer, numVars>>

AnalyzeDone ==
    /\ pc = "analyse"
    /\ Len(results) = Len(TextListing)
    /\ pc' = "interact"
    /\ UNCHANGED <<pdf_dir, convVars, ci, temp_dir, gateVars, passVars, resolverVars,
                   reportVars, exit_code, out, answer, numVars>>

\* if invoice_data.status == STATUS_NEEDS_INTERACTION
needs_resolver_any_discount(invoice_data) == invoice_data.discounts # <<>>
needs_resolver(invoice_data) == invoice_data.status = STATUS_NEEDS_INTERACTION

\* the document the second pass is at, and the arguments of its resolver
Current == results[Len(final_results) + 1]
positive_amounts == Current[2].positive_amounts
discounts == Current[2].discounts

Record(file, total, note) == [file |-> file, total |-> total, notes |-> note]

\* One round of the second pass for a document that needs no interaction.
KeepResult ==
    /\ pc = "interact"
    /\ Len(final_results) < Len(results)
    /\ ~needs_resolver(Current[2])
    /\ final_results' = Append(final_results,
                               Record(Current[1], Current[2].total, Current[2].notes))
    /\ UNCHANGED <<pc, pdf_dir, convVars, ci, temp_dir, gateVars, results, resolverVars,
                   reportVars, exit_code, out, answer, numVars>>

\* The call of interactive_discount_resolver, up to its first prompt.
StartResolver ==
    /\ pc = "interact"
    /\ Len(final_results) < Len(results)
    /\ needs_resolver(Current[2])
    /\ pc' = "resolver"
    /\ rstate' = "AwaitChoice"
    /\ out' = "Enter 'E', 'S', or discount numbers separated by commas (e.g., 1,2)."
    /\ UNCHANGED <<pdf_dir, convVars, ci, temp_dir, gateVars, passVars, final_total, notes,
                   reportVars, exit_code, answer, numVars>>

InteractDone ==
    /\ pc = "interact"
    /\ Len(final_results) = Len(results)
    /\ pc' = "report"
    /\ UNCHANGED <<pdf_dir, convVars, ci, temp_dir, gateVars, passVars, resolverVars,
                   reportVars, exit_code, out, answer, numVars>>

\* ------------------------------------------------------------------------
\* interactive_discount_resolver: the prompt loop
\* ------------------------------------------------------------------------
\* str.strip()
RECURSIVE StripLeft(_)
StripLeft(s) == IF s # <<>> /\ Head(s) = " " THEN StripLeft(Tail(s)) ELSE s
RECURSIVE StripRight(_)
StripRight(s) ==
    IF s # <<>> /\ s[Len(s)] = " " THEN StripRight(SubSeq(s, 1, Len(s) - 1)) ELSE s
Strip(s) == StripLeft(StripRight(s))

\* str.split(','): the fields between the commas (one empty field for '')
RECURSIVE Split(_)
Split(s) ==
    IF \A i \in 1..Len(s) : s[i] # "," THEN <<s>>
    ELSE LET k == CHOOSE i \in 1..Len(s) :
                      s[i] = "," /\ \A j \in 1..(i - 1) : s[j] # ","
         IN  <<SubSeq(s, 1, k - 1)>> \o Split(SubSeq(s, k + 1, Len(s)))

\* the answers the operator gives at "Your choice: "
ChoiceAnswers ==
    { <<"e">>, <<" ", "S">>, <<"x">>, <<>>,
      <<"1">>, <<"3">>,
      <<"1", ",", "2">>, <<"1", ",", "1">>, <<"1", ",", " ", "3">>,
      <<"0", ",", "2">>, <<"1", ",", "x">> }

\* the answers given at "Enter the final correct amount"
AmountAnswers == {<<"9", "5", ".", "5", "0">>, <<"x">>, <<>>}

\* choice_str = input(...).strip().upper()
choice_str(line) == Upper(Strip(line))

\* choices = [int(c.strip()) for c in choice_str.split(',')]: a ValueError as
\* soon as one element is no integer
parse_choices_skip_bad(cs) ==
    LET fields == SelectSeq(Split(cs), LAMBDA c : PyInt(Strip(c)).ok)
    IN  [ok |-> fields # <<>>,
         vals |-> [i \in 1..Len(fields) |-> PyInt(Strip(fields[i])).val]]
parse_choices(cs) ==
    LET fields == Split(cs)
    IN  [ok   |-> \A i \in 1..Len(fields) : PyInt(Strip(fields[i])).ok,
         vals |-> [i \in 1..Len(fields) |-> PyInt(Strip(fields[i])).val]]

\* if 1 <= c <= len(discounts)
valid_choice(c, ds) == 1 <= c /\ c <= Len(ds)

\* valid_choices after the loop over choices
valid_choices_first_only(choices, ds) == valid_choice(choices[1], ds)
valid_choices(choices, ds) == \A i \in 1..Len(choices) : valid_choice(choices[i], ds)

\* selected_discounts_values after the loop: the discounts of the choices
\* before the first invalid one
RECURSIVE selected_discounts_values(_, _)
selected_discounts_values(choices, ds) ==
    IF choices = <<>> \/ ~valid_choice(choices[1], ds) THEN <<>>
    ELSE <<ds[choices[1]]>> \o selected_discounts_values(Tail(choices), ds)

\* final_total = round(positive_amounts[0] - total_discount, 2)
discounted_total_added(main_total, selected) == Round2(main_total + SeqSum(selected))
discounted_total(main_total, selected) == Round2(main_total - SeqSum(selected))

inputVars == <<pdf_dir, convVars, ci, temp_dir, gateVars, passVars, reportVars,
               exit_code, numVars>>

\* 'E': on to the manual-entry loop
ChoiceManual(line) ==
    /\ pc = "resolver" /\ rstate = "AwaitChoice"
    /\ choice_str(line) = <<"E">>
    /\ answer' = line
    /\ rstate' = "ManualEntry"
    /\ out' = "Enter the final correct amount (e.g., 123.45): "
    /\ UNCHANGED <<pc, final_total, notes, inputVars>>

\* 'S': the highest amount is kept
ChoiceSkip(line) ==
    /\ pc = "resolver" /\ rstate = "AwaitChoice"
    /\ choice_str(line) = <<"S">>
    /\ answer' = line
    /\ rstate' = "Resolved"
    /\ final_total' = Some(positive_amounts[1])
    /\ notes' = Note("Skipped discount in interactive mode.", <<>>, <<>>)
    /\ out' = "The final amount for this invoice will be"
    /\ UNCHANGED <<pc, inputVars>>

\* anything else is read as a list of discount numbers
ChoiceList(line) ==
    /\ pc = "resolver" /\ rstate = "AwaitChoice"
    /\ choice_str(line) \notin {<<"E">>, <<"S">>}
    /\ answer' = line
    /\ LET parsed == parse_choices(choice_str(line))
       IN  IF ~parsed.ok
           THEN /\ out' = "Invalid input. Please enter 'E', 'S', or numbers separated by commas."
                /\ UNCHANGED <<rstate, final_total, notes>>
           ELSE IF ~valid_choices(parsed.vals, discounts)
           THEN /\ out' = "Invalid selection"
                /\ UNCHANGED <<rstate, final_total, notes>>
           ELSE LET selected == selected_discounts_values(parsed.vals, discounts)
                IN  IF selected # <<>>
                    THEN /\ rstate' = "Resolved"
                         /\ final_total' = Some(discounted_total(positive_amounts[1], selected))
                         /\ notes' = Note("Manually applied discount(s) of {}.",
                                          <<>>, FmtAll(selected))
                         /\ out' = "The final amount for this invoice will be"
                    ELSE /\ out' = "No valid discounts selected."
                         /\ UNCHANGED <<rstate, final_total, notes>>
    /\ UNCHANGED <<pc, inputVars>>

ManualEntryBackToChoice(line) ==
    /\ pc = "resolver" /\ rstate = "ManualEntry"
    /\ answer' = line
    /\ LET custom_total == PyFloat(line)
       IN  IF custom_total.ok
           THEN /\ rstate' = "Resolved"
                /\ final_total' = Some(Units(custom_total))
                /\ notes' = Note("Manually entered total.", <<>>, <<>>)
                /\ out' = "The final amount for this invoice will be"
           ELSE /\ rstate' = "AwaitChoice"
                /\ out' = "Invalid amount. Please enter a number."
                /\ UNCHANGED <<final_total, notes>>
    /\ UNCHANGED <<pc, inputVars>>

\* the inner loop: float(input(...)), asked again on a ValueError
ManualEntry(line) ==
    /\ pc = "resolver" /\ rstate = "ManualEntry"
    /\ answer' = line
    /\ LET custom_total == PyFloat(line)
       IN  IF custom_total.ok
           THEN /\ rstate' = "Resolved"
                /\ final_total' = Some(Units(custom_total))
                /\ notes' = Note("Manually entered total.", <<>>, <<>>)
                /\ out' = "The final amount for this invoice will be"
           ELSE /\ out' = "Invalid amount. Please enter a number."
                /\ UNCHANGED <<rstate, final_total, notes>>
    /\ UNCHANGED <<pc, inputVars>>

ResolverReturnKeepsProvisional ==
    /\ pc = "resolver" /\ rstate = "Resolved"
    /\ final_results' = Append(final_results,
                               Record(Current[1], Current[2].total, Current[2].notes))
    /\ pc' = "interact"
    /\ rstate' = "Idle"
    /\ final_total' = None
    /\ notes' = NoNote
    /\ UNCHANGED <<pdf_dir, convVars, ci, temp_dir, gateVars, results, reportVars,
                   exit_code, out, answer, numVars>>

\* return final_total, notes; main appends the record
ResolverReturn ==
    /\ pc = "resolver" /\ rstate = "Resolved"
    /\ final_results' = Append(final_results, Record(Current[1], final_total, notes))
    /\ pc' = "interact"
    /\ rstate' = "Idle"
    /\ final_total' = None
    /\ notes' = NoNote
    /\ UNCHANGED <<pdf_dir, convVars, ci, temp_dir, gateVars, results, reportVars,
                   exit_code, out, answer, numVars>>

\* ------------------------------------------------------------------------
\* main: the report
\* ------------------------------------------------------------------------
\* the loop over final_results: grand_total += total where total is not None
present_total(result) == IF result.total # None THEN result.total[1] ELSE 0
sum_totals_but_last(rs) == SeqSum([i \in 1..(Len(rs) - 1) |-> present_total(rs[i])])
sum_totals(rs) == SeqSum([i \in 1..Len(rs) |-> present_total(rs[i])])

Report ==
    /\ pc = "report"
    /\ grand_total' = sum_totals(final_results)
    /\ invoice_count' = Len(final_results)
    /\ pc' = "done"
    /\ out' = "Grand Total"
    /\ UNCHANGED <<pdf_dir, convVars, ci, temp_dir, gateVars, passVars, resolverVars,
                   exit_code, answer, numVars>>

Next ==
    \/ ConvertNone
    \/ \E conv \in Conversions : ConvertOne(conv)
    \/ BuildHashes
    \/ NextGroup
    \/ \E choice \in YesNoAnswers : DupYes(choice) \/ DupNo(choice) \/ DupOther(choice)
    \/ \E line \in DelAnswers : DupDelete(line) \/ DupCancel(line) \/ DupInvalid(line)
    \/ GateReturn
    \/ AnalyzeFile
    \/ AnalyzeDone
    \/ KeepResult
    \/ StartResolver
    \/ InteractDone
    \/ \E line \in ChoiceAnswers : ChoiceManual(line) \/ ChoiceSkip(line) \/ ChoiceList(line)
    \/ \E line \in AmountAnswers : ManualEntry(line)
    \/ ResolverReturn
    \/ Report

Spec == Init /\ [][Next]_vars

\* The steps the program takes without waiting for the operator, the rounds
\* of the first pass apart.
ProgramStep ==
    \/ ConvertNone
    \/ \E conv \in Conversions : ConvertOne(conv)
    \/ BuildHashes
    \/ NextGroup
    \/ GateReturn
    \/ AnalyzeDone
    \/ KeepResult
    \/ StartResolver
    \/ InteractDone
    \/ ResolverReturn
    \/ Report

\* the first pass has a file left to analyse: exactly then AnalyzeFile can
\* be taken
AnalysisPending == pc = "analyse" /\ Len(results) < Len(TextListing)

\* The answers each prompt accepts: y or n, a number of the deletion menu,
\* a letter or a list of valid discount numbers, an amount.
ValidYesNo == \E choice \in YesNoAnswers : DupYes(choice) \/ DupNo(choice)
ValidDeletion == \E line \in DelAnswers : DupDelete(line) \/ DupCancel(line)
ValidChoice ==
    \/ \E line \in ChoiceAnswers : ChoiceManual(line)
    \/ \E line \in ChoiceAnswers : ChoiceSkip(line)
    \/ \E line \in ChoiceAnswers : ChoiceList(line) /\ rstate' = "Resolved"
ValidAmount == \E line \in AmountAnswers : ManualEntry(line) /\ rstate' = "Resolved"

\* The run with a program that keeps running and an operator who, at each
\* prompt that keeps being shown, eventually gives an answer it accepts;
\* input() itself waits without limit.  The first pass goes on as any other
\* loop: a pending analysis does not stay pending for ever, which is weak
\* fairness of AnalyzeFile, a step taken at most once per file.
SpecLive ==
    /\ Spec
    /\ WF_vars(ProgramStep)
    /\ []<>~AnalysisPending
    /\ SF_vars(ValidYesNo)
    /\ SF_vars(ValidDeletion)
    /\ SF_vars(ValidChoice)
    /\ SF_vars(ValidAmount)

\* ------------------------------------------------------------------------
\* analyze_invoice_text on its own: one converted text, drawn from every
\* sequence of at most MaxMatches tokens, at the start of the first pass
\* ------------------------------------------------------------------------
N223 == Str("2", ",", "2", "3", "", "")
N9 == Str("9", ",", "0", "0", "", "")
N1 == Str("1", ",", "0", "0", "", "")
N1234us == Str("1", ",", "2", "3", "4", ".") \o <<"5", "6">>
N1234bad == Str("1", ",", "2", "3", "4", ",") \o <<"5", "6">>

TokenPool ==
    { Match(FALSE, N100), Match(FALSE, N90), Match(FALSE, N223), Match(FALSE, N1234us),
      Match(FALSE, N1234bad), Match(TRUE, N10), Match(TRUE, N9), Match(TRUE, N1) }

ContentSet ==
    { [bytes |-> "text", matches |-> ms] :
        ms \in UNION {[1..n -> TokenPool] : n \in 0..MaxMatches} }

InitAnalyze ==
    /\ pc = "analyse"
    /\ pdf_dir = {"a"}
    /\ listing = <<"a">>
    /\ \E content \in ContentSet : temp_dir = ("a" :> content)
    /\ ci = 1
    /\ hashes = HashFiles(<<"a">>)
    /\ gi = 2
    /\ duplicates_found = FALSE
    /\ deleted = <<>>
    /\ results = <<>>
    /\ final_results = <<>>
    /\ rstate = "Idle"
    /\ final_total = None
    /\ notes = NoNote
    /\ grand_total = 0
    /\ invoice_count = 0
    /\ exit_code = None
    /\ out = "Processing invoices..."
    /\ answer = <<>>
    /\ num_strs = <<>>
    /\ amounts = <<>>

NextAnalyze == AnalyzeFile

SpecAnalyze == InitAnalyze /\ [][NextAnalyze]_vars

\* ------------------------------------------------------------------------
\* The normalisation of a matched numeral on its own: the same magnitude
\* written in both separator conventions, each form normalised in turn
\* ------------------------------------------------------------------------
DigitPool == {"0", "7"}
DigitStrings(n) == [1..n -> DigitPool]

\* \d{1,3}(?:[.,]\d{3})*(?:[.,]\d{2}): the digits of a matched numeral
NumeralShapes ==
    [lead   : DigitStrings(1) \cup DigitStrings(2) \cup DigitStrings(3),
     groups : UNION {[1..n -> DigitStrings(3)] : n \in 0..MaxGroups},
     frac   : DigitStrings(2)]
    \cup {[lead |-> <<"1">>, groups |-> <<<<"2", "3", "4">>>>, frac |-> <<"5", "6">>]}

RECURSIVE Grouped(_, _)
Grouped(groups, sep) ==
    IF groups = <<>> THEN <<>> ELSE <<sep>> \o Head(groups) \o Grouped(Tail(groups), sep)

\* the numeral of shape n with group separator gsep and decimal separator dsep
Written(n, gsep, dsep) == n.lead \o Grouped(n.groups, gsep) \o <<dsep>> \o n.frac

InitNumeral ==
    /\ pc = "normalise"
    /\ \E n \in NumeralShapes : num_strs = <<Written(n, ".", ","), Written(n, ",", ".")>>
    /\ amounts = <<>>
    /\ pdf_dir = {}
    /\ listing = <<>>
    /\ temp_dir = <<>>
    /\ InitRest

\* the body of the loop over the matches, for the next numeral
NormaliseOne ==
    /\ pc = "normalise"
    /\ Len(amounts) < Len(num_strs)
    /\ amounts' = Append(amounts, PyFloat(cleaned_num_str(num_strs[Len(amounts) + 1])))
    /\ UNCHANGED <<pc, pdf_dir, convVars, ci, temp_dir, gateVars, passVars, resolverVars,
                   reportVars, exit_code, out, answer, num_strs>>

NextNumeral == NormaliseOne

SpecNumeral == InitNumeral /\ [][NextNumeral]_vars

\* ------------------------------------------------------------------------
\* Properties
\* ------------------------------------------------------------------------
\* the amounts extracted from the text of the i-th analysed document
ExtractedOf(i) == ExtractAmounts(Matches(temp_dir[results[i][1]]))
PosOf(i) == ExtractedOf(i).positive_amounts
DiscOf(i) == ExtractedOf(i).discounts
DataOf(i) == results[i][2]
Analysed == 1..Len(results)

\* C1: with positives P and discounts D both non-empty and
\* c = round(max(P) - max(D), 2), the outcome is APPLIED_DISCOUNT with total c
\* exactly when c equals some element of P rounded to 2 decimals, and
\* otherwise NEEDS_INTERACTION with total max(P); only the largest discount
\* is ever tried.
C1_LargestDiscountOnly ==
    \A i \in Analysed :
        (PosOf(i) # <<>> /\ DiscOf(i) # <<>>) =>
            LET c == Round2(MaxOf(PosOf(i)) - MaxOf(DiscOf(i)))
            IN  IF \E p \in Range(PosOf(i)) : Round2(p) = c
                THEN /\ DataOf(i).status = STATUS_APPLIED_DISCOUNT
                     /\ DataOf(i).total = Some(c)
                ELSE /\ DataOf(i).status = STATUS_NEEDS_INTERACTION
                     /\ DataOf(i).total = Some(MaxOf(PosOf(i)))

\* C1 witness: a document whose discounts together would lead to one of its
\* positive amounts, while the largest alone does not, has been analysed and
\* needs interaction.
C1_Witness ==
    \E i \in Analysed :
        /\ Len(DiscOf(i)) >= 2
        /\ \E p \in Range(PosOf(i)) : Round2(p) = Round2(MaxOf(PosOf(i)) - SeqSum(DiscOf(i)))
        /\ DataOf(i).status = STATUS_NEEDS_INTERACTION

\* C2: the numeral written with '.' for groups and ',' for decimals and the
\* one written with ',' for groups and '.' for decimals normalise to the
\* same value.
C2_SameMagnitude ==
    (pc = "normalise" /\ Len(amounts) = 2) => amounts[1] = amounts[2]

\* C4 as stated: the total is present iff the outcome is neither NO_AMOUNT nor
\* the pending NEEDS_INTERACTION.
C4_TotalIffSettled ==
    \A i \in Analysed :
        (DataOf(i).total # None) <=>
            (DataOf(i).status \notin {STATUS_NO_AMOUNT, STATUS_NEEDS_INTERACTION})

\* C4 amended: the total is present iff the outcome is not NO_AMOUNT; a
\* NEEDS_INTERACTION result carries the provisional total max(P).
C4_TotalIffAmountFound ==
    \A i \in Analysed :
        /\ (DataOf(i).total # None) <=> (DataOf(i).status # STATUS_NO_AMOUNT)
        /\ DataOf(i).status = STATUS_NEEDS_INTERACTION =>
               DataOf(i).total = Some(MaxOf(PosOf(i)))

\* C4 witness: a NEEDS_INTERACTION result with its provisional total.
C4_Witness ==
    \E i \in Analysed :
        DataOf(i).status = STATUS_NEEDS_INTERACTION /\ DataOf(i).total # None

\* C8: the outcome is NO_AMOUNT, with no total and the note "No amount
\* found", exactly when the positives are empty, also when discounts were
\* found; a text without any amount token gives two empty sequences.
C8_NoAmountIffNoPositives ==
    \A i \in Analysed :
        /\ (DataOf(i).status = STATUS_NO_AMOUNT) <=> (PosOf(i) = <<>>)
        /\ PosOf(i) = <<>> =>
               /\ DataOf(i).total = None
               /\ DataOf(i).notes = Note("No amount found", <<>>, <<>>)
        /\ Matches(temp_dir[results[i][1]]) = <<>> =>
               /\ PosOf(i) = <<>> /\ DiscOf(i) = <<>>
               /\ DataOf(i).positive_amounts = <<>> /\ DataOf(i).discounts = <<>>

\* C8 witness: a text with discounts and no positive amount has been analysed.
C8_Witness ==
    \E i \in Analysed :
        PosOf(i) = <<>> /\ DiscOf(i) # <<>> /\ DataOf(i).status = STATUS_NO_AMOUNT

\* C9: non-empty positives P and no discounts give outcome OK with total
\* max(P) and an empty note, in whatever order the amounts stand in the text.
C9_CleanIsMax ==
    \A i \in Analysed :
        (PosOf(i) # <<>> /\ DiscOf(i) = <<>>) =>
            /\ DataOf(i).status = STATUS_OK
            /\ DataOf(i).total = Some(MaxOf(PosOf(i)))
            /\ DataOf(i).notes = NoNote

\* C9 witness: a clean document whose largest amount is not the first one in
\* the text has been analysed.
C9_Witness ==
    \E i \in Analysed :
        /\ DiscOf(i) = <<>> /\ Len(PosOf(i)) >= 2
        /\ PosOf(i)[1] < MaxOf(PosOf(i))
        /\ DataOf(i).status = STATUS_OK

\* two text files with the same bytes
SameText(f, g) == temp_dir[f].bytes = temp_dir[g].bytes
DuplicatesExist == \E f, g \in DOMAIN temp_dir : f # g /\ SameText(f, g)

\* C3: when some duplicate group exists, no document is analysed, the
\* resolver is never started and no report or grand total is produced; the
\* gate signals duplicates and the run ends with exit status 0, whatever the
\* operator answered.  Analysis happens only when no duplicate group exists.
C3_GateAllOrNothing ==
    /\ DuplicatesExist =>
           /\ pc \in {"convert", "gate", "groups", "dup_yn", "dup_which", "exit"}
           /\ results = <<>> /\ final_results = <<>>
           /\ rstate = "Idle" /\ final_total = None
           /\ grand_total = 0 /\ invoice_count = 0
           /\ (pc = "groups" /\ gi > Len(hashes)) => duplicates_found
           /\ pc = "exit" => exit_code = Some(0)
    /\ (pc \in {"analyse", "interact", "resolver", "report", "done"} \/ results # <<>>) =>
           ~DuplicatesExist

\* C3 witness: the run has ended at the gate after the operator deleted one
\* member of a duplicate group, while another text is no duplicate.
C3_Witness ==
    /\ pc = "exit" /\ exit_code = Some(0)
    /\ DuplicatesExist
    /\ deleted # <<>>
    /\ \E f \in DOMAIN temp_dir : \A g \in DOMAIN temp_dir : SameText(f, g) => f = g

\* the group a file was put in
GroupOf(f) == CHOOSE i \in 1..Len(hashes) : f \in Range(hashes[i].filenames)

\* C7: two documents are in the same group exactly when their texts are
\* byte-identical, whatever their names; only a group of at least 2 files
\* opens the operator dialogue or makes the gate signal duplicates.
C7_GroupsByText ==
    pc \in {"groups", "dup_yn", "dup_which"} =>
        /\ \A f \in DOMAIN temp_dir :
               Cardinality({i \in 1..Len(hashes) : f \in Range(hashes[i].filenames)}) = 1
        /\ \A f, g \in DOMAIN temp_dir : SameText(f, g) <=> GroupOf(f) = GroupOf(g)
        /\ \A i \in 1..Len(hashes) :
               /\ Range(hashes[i].filenames) \subseteq DOMAIN temp_dir
               /\ Cardinality(Range(hashes[i].filenames)) = Len(hashes[i].filenames)
        /\ pc \in {"dup_yn", "dup_which"} => Len(hashes[gi].filenames) >= 2
        /\ duplicates_found <=>
               \E i \in 1..Len(hashes) :
                   /\ Len(hashes[i].filenames) >= 2
                   /\ i < gi \/ (i = gi /\ pc \in {"dup_yn", "dup_which"})

\* C7 witness: the dialogue is open for a group of two files after a
\* single-file fingerprint was passed over without any report.
C7_Witness ==
    /\ pc = "dup_yn"
    /\ gi = 2
    /\ Len(hashes[1].filenames) = 1
    /\ Len(hashes[2].filenames) = 2
    /\ out = "--- DUPLICATE INVOICES DETECTED ---"

\* the sum of the totals of the records at the positions in I
RECURSIVE SumAt(_, _)
SumAt(I, rs) ==
    IF I = {} THEN 0
    ELSE LET i == CHOOSE x \in I : TRUE
         IN  rs[i].total[1] + SumAt(I \ {i}, rs)

\* C6: the grand total of the report is the sum of the final totals that are
\* present, whatever the order of the directory listing; a document without
\* amount adds nothing to it and is counted in the item count.
C6_GrandTotal ==
    pc = "done" =>
        /\ grand_total =
               SumAt({i \in 1..Len(final_results) : final_results[i].total # None},
                     final_results)
        /\ invoice_count = Cardinality(DOMAIN temp_dir)
        /\ {final_results[i].file : i \in 1..Len(final_results)} = DOMAIN temp_dir

\* C6 witness: a report over three documents listed in another than filename
\* order, one of them without amount.
C6_Witness ==
    /\ pc = "done"
    /\ Len(final_results) = 3
    /\ listing # FileNames
    /\ \E i \in 1..3 : final_results[i].total = None
    /\ grand_total > 0

\* the elements of an answer that is a list of integers, << >> when it is none
IndexList(line) ==
    LET parsed == [i \in 1..Len(Split(Upper(Strip(line)))) |->
                      PyInt(Strip(Split(Upper(Strip(line)))[i]))]
    IN  IF \A i \in 1..Len(parsed) : parsed[i].ok
        THEN [i \in 1..Len(parsed) |-> parsed[i].val]
        ELSE <<>>
InRange(idx) == \A i \in 1..Len(idx) : idx[i] \in 1..Len(discounts)
IsLetter(line, letter) == Upper(Strip(line)) = <<letter>>

\* C5: an answer that is a list of indices is applied as a whole: with an
\* index outside 1..len(discounts) the dialogue stays in AwaitChoice with no
\* total and no note; with all indices valid it is Resolved with total
\* round(max positive - sum of the selected discounts, 2) and a note naming
\* every selected discount.
C5_IndexListAtomic ==
    [][ (pc = "resolver" /\ rstate = "AwaitChoice" /\ IndexList(answer') # <<>>) =>
            IF InRange(IndexList(answer'))
            THEN /\ rstate' = "Resolved"
                 /\ final_total' =
                        Some(Round2(MaxOf(positive_amounts)
                                    - SeqSum([i \in 1..Len(IndexList(answer')) |->
                                                 discounts[IndexList(answer')[i]]])))
                 /\ notes'.applied = [i \in 1..Len(IndexList(answer')) |->
                                         Round2(discounts[IndexList(answer')[i]])]
            ELSE /\ rstate' = "AwaitChoice"
                 /\ final_total' = None
                 /\ notes' = NoNote ]_vars

\* C5 witness: the answer "1,2" over the discounts 5.00 and 3.00 and the
\* highest amount 100.00 has resolved the document to 92.00.
C5_Witness ==
    /\ pc = "resolver" /\ rstate = "Resolved"
    /\ answer = <<"1", ",", "2">>
    /\ discounts = <<5 * Unit, 3 * Unit>>
    /\ positive_amounts[1] = 100 * Unit
    /\ final_total = Some(92 * Unit)
    /\ notes.applied = <<5 * Unit, 3 * Unit>>

\* an answer at AwaitChoice that is neither a letter nor a list of valid indices
InvalidChoice(line) ==
    /\ ~IsLetter(line, "E") /\ ~IsLetter(line, "S")
    /\ IndexList(line) = <<>> \/ ~InRange(IndexList(line))

\* C10: an invalid answer leaves the dialogue in the state it was given in,
\* with no total and no note; Resolved is reached only by a valid amount in
\* ManualEntry, by the skip letter or by a list of valid indices, and no
\* total exists before that.
C10_InvalidInputNoEffect ==
    [][ pc = "resolver" =>
          /\ (rstate = "AwaitChoice" /\ InvalidChoice(answer')) =>
                 rstate' = "AwaitChoice" /\ final_total' = None /\ notes' = NoNote
          /\ (rstate = "ManualEntry" /\ ~PyFloat(answer').ok) =>
                 rstate' = "ManualEntry" /\ final_total' = None /\ notes' = NoNote
          /\ (rstate # "Resolved" /\ rstate' = "Resolved") =>
                 \/ rstate = "ManualEntry" /\ PyFloat(answer').ok
                 \/ rstate = "AwaitChoice" /\ IsLetter(answer', "S")
                 \/ rstate = "AwaitChoice" /\ IndexList(answer') # <<>>
                                           /\ InRange(IndexList(answer'))
          /\ rstate \in {"AwaitChoice", "ManualEntry"} =>
                 final_total = None /\ notes = NoNote ]_vars

\* C10 witness: after the answer "1,x" the dialogue is still at AwaitChoice
\* and nothing is fixed.
C10_Witness ==
    /\ pc = "resolver" /\ rstate = "AwaitChoice"
    /\ answer = <<"1", ",", "x">>
    /\ out = "Invalid input. Please enter 'E', 'S', or numbers separated by commas."
    /\ final_total = None /\ notes = NoNote

\* the notes the resolver returns
ResolverNotes ==
    {"Skipped discount in interactive mode.", "Manually entered total.",
     "Manually applied discount(s) of {}."}
TextSet == DOMAIN temp_dir
RecordsOf(f) == {i \in 1..Len(final_results) : final_results[i].file = f}

\* C11: once the second pass is over, the final results hold exactly one
\* record for each file of the text set and none for any other file; the
\* record of a NEEDS_INTERACTION document carries a note of the resolver,
\* every other record the total and the note of its analysis.
C11_OneRecordPerDocument ==
    pc \in {"report", "done"} =>
        /\ \A f \in TextSet : Cardinality(RecordsOf(f)) = 1
        /\ \A i \in 1..Len(final_results) : final_results[i].file \in TextSet
        /\ Len(final_results) = Cardinality(TextSet)
        /\ \A i \in 1..Len(final_results) :
               LET invoice_data == analyze_invoice_text(temp_dir[final_results[i].file])
               IN  IF invoice_data.status = STATUS_NEEDS_INTERACTION
                   THEN final_results[i].notes.text \in ResolverNotes
                   ELSE /\ final_results[i].total = invoice_data.total
                        /\ final_results[i].notes = invoice_data.notes

\* C11 witness: a finished run over three documents, one record written by
\* the resolver and one taken from an analysis that found no amount.
C11_Witness ==
    /\ pc = "done"
    /\ Cardinality(TextSet) = 3
    /\ \E i, j \in 1..Len(final_results) :
           /\ final_results[i].notes.text = "Manually entered total."
           /\ final_results[j].notes.text = "No amount found"

\* C12: from AwaitChoice the skip letter leads to Resolved with the highest
\* amount and the skipped note, the manual letter to ManualEntry; from
\* ManualEntry the dialogue stays there or becomes Resolved with the amount
\* the operator typed and the manual note, never AwaitChoice again; from
\* Resolved the only step returns the total and the note into the record of
\* the document without reading input, and no record changes afterwards.
C12_ResolverTransitions ==
    [][ /\ (pc = "resolver" /\ rstate = "AwaitChoice" /\ IsLetter(answer', "S")) =>
               /\ rstate' = "Resolved"
               /\ final_total' = Some(MaxOf(positive_amounts))
               /\ notes' = Note("Skipped discount in interactive mode.", <<>>, <<>>)
        /\ (pc = "resolver" /\ rstate = "AwaitChoice" /\ IsLetter(answer', "E")) =>
               /\ rstate' = "ManualEntry"
               /\ final_total' = None /\ notes' = NoNote
        /\ (pc = "resolver" /\ rstate = "ManualEntry") =>
               \/ /\ rstate' = "ManualEntry"
                  /\ final_total' = None /\ notes' = NoNote
               \/ /\ rstate' = "Resolved"
                  /\ PyFloat(answer').ok
                  /\ final_total' = Some(Units(PyFloat(answer')))
                  /\ notes' = Note("Manually entered total.", <<>>, <<>>)
        /\ (pc = "resolver" /\ rstate = "Resolved") =>
               /\ answer' = answer
               /\ pc' = "interact" /\ rstate' = "Idle"
               /\ final_results' =
                      Append(final_results,
                             Record(results[Len(final_results) + 1][1], final_total, notes))
        /\ \A i \in 1..Len(final_results) :
               Len(final_results') >= i /\ final_results'[i] = final_results[i] ]_vars

\* C12 witness: the document is Resolved with the amount typed in ManualEntry.
C12_Witness ==
    /\ pc = "resolver" /\ rstate = "Resolved"
    /\ answer = <<"9", "5", ".", "5", "0">>
    /\ final_total = Some(Units(PyFloat(answer)))
    /\ notes.text = "Manually entered total."

\* the sum of the discounts at the positions in S
SubsetSum(S, ds) == SeqSum([i \in 1..Len(ds) |-> IF i \in S THEN ds[i] ELSE 0])

\* C13: a total fixed by a list of discount numbers is the highest amount
\* minus the sum of a subset of the discounts, each discount subtracted at
\* most once, whatever list was typed.
C13_EachDiscountAtMostOnce ==
    (pc = "resolver" /\ rstate = "Resolved"
        /\ notes.text = "Manually applied discount(s) of {}.") =>
        \E S \in SUBSET (1..Len(discounts)) :
            final_total = Some(Round2(MaxOf(positive_amounts) - SubsetSum(S, discounts)))

InvalidDeletionNotices == {"Invalid choice.", "Invalid input. Please enter a number."}

\* C14: after an answer to the deletion menu that is out of range or no
\* number, the dialogue is at the deletion menu again, for the same group
\* and with none of its files deleted; after an unrecognised answer to the
\* y/n question it is at the y/n question again.
C14_RepromptInPlace ==
    /\ out \in InvalidDeletionNotices =>
           /\ pc = "dup_which"
           /\ gi <= Len(hashes)
           /\ Range(hashes[gi].filenames) \cap Range(deleted) = {}
    /\ out = "Do you want to delete one of these files? [y/n]: " => pc = "dup_yn"

\* a valid file number of the deletion menu shown
IsFileNumber(line) ==
    PyInt(line).ok /\ PyInt(line).val \in 1..Len(hashes[gi].filenames)

\* C15: a PDF disappears only by a valid file number given at the deletion
\* menu, it is the PDF of the member with that number of the group shown,
\* and the dialogue of that group is over with it, so that a group loses at
\* most one PDF; the answer no and the cancel number delete nothing; no group
\* is shown twice; the text files never change once converted.
C15_SingleChosenDeletion ==
    [][ /\ pdf_dir' # pdf_dir =>
               /\ pc = "dup_which"
               /\ IsFileNumber(answer')
               /\ pdf_dir' = pdf_dir \ {hashes[gi].filenames[PyInt(answer').val]}
               /\ deleted' = Append(deleted, hashes[gi].filenames[PyInt(answer').val])
               /\ pc' = "groups" /\ gi' = gi + 1
        /\ (pc = "dup_yn" /\ Lower(answer') \in NoWords) =>
               pdf_dir' = pdf_dir /\ deleted' = deleted
        /\ (pc = "dup_which" /\ ~IsFileNumber(answer')) =>
               pdf_dir' = pdf_dir /\ deleted' = deleted
        /\ pc \in {"groups", "dup_yn", "dup_which"} => gi' >= gi /\ hashes' = hashes
        /\ \A i, j \in 1..Len(deleted') :
               i # j => GroupOf(deleted'[i]) # GroupOf(deleted'[j])
        /\ pc # "convert" => temp_dir' = temp_dir ]_vars

\* C15 witness: the run has ended after the second member of a group of
\* three was deleted; the two other PDFs are still there.
C15_Witness ==
    /\ pc = "exit"
    /\ Len(hashes) = 1 /\ Len(hashes[1].filenames) = 3
    /\ deleted = <<hashes[1].filenames[2]>>
    /\ pdf_dir = Files \ {hashes[1].filenames[2]}
    /\ TextSet = Files

\* the place of a file name in ascending order
Rank(f) == CHOOSE i \in 1..Len(FileNames) : FileNames[i] = f
PipelineStages == {"analyse", "interact", "resolver", "report", "done"}

\* C16: the gate starts only when every PDF has been handled by the
\* conversion, the analysis only when the gate is through, the second pass
\* only when every text has been analysed, in ascending filename order; the
\* second pass takes the documents in that same order, and the grand total
\* and the item count are formed only when every document has its record.
C16_PhasesInOrder ==
    /\ (pc # "convert" \/ hashes # <<>> \/ gi # 0) => ci = Len(listing)
    /\ (pc \in PipelineStages \/ results # <<>>) =>
           /\ pc \in PipelineStages
           /\ gi > Len(hashes) /\ Len(hashes) = Cardinality(TextSet)
    /\ \A i, j \in 1..Len(results) : i < j => Rank(results[i][1]) < Rank(results[j][1])
    /\ \A i \in 1..Len(results) :
           \A f \in TextSet : Rank(f) < Rank(results[i][1]) =>
               \E j \in 1..(i - 1) : results[j][1] = f
    /\ (pc \in PipelineStages \ {"analyse"} \/ final_results # <<>> \/ rstate # "Idle") =>
           {results[i][1] : i \in 1..Len(results)} = TextSet
    /\ Len(final_results) <= Len(results)
    /\ \A i \in 1..Len(final_results) : final_results[i].file = results[i][1]
    /\ rstate # "Idle" => pc = "resolver" /\ Len(final_results) < Len(results)
    /\ (grand_total # 0 \/ invoice_count # 0 \/ pc = "done") =>
           pc = "done" /\ Len(final_results) = Cardinality(TextSet)

\* C16 witness: with the directory listed in descending order, the resolver
\* is open for the third document after the first was resolved by it.
C16_Witness ==
    /\ pc = "resolver"
    /\ listing = <<"c", "b", "a">>
    /\ Len(final_results) = 2
    /\ final_results[1].file = "a"
    /\ final_results[1].notes.text \in ResolverNotes
    /\ results[3][1] = "c"

\* the value a matched numeral stands for: its digits, the last two of them
\* the fraction
Magnitude(num_str) == DigitsToNat(SelectSeq(num_str, LAMBDA c : c \in Digits)) * Cent
MagnitudesOf(ms, sign) ==
    LET tokens == SelectSeq(ms, LAMBDA m : m.sign = sign)
    IN  [i \in 1..Len(tokens) |-> Magnitude(tokens[i].num_str)]

\* C17: the discounts of an analysis result are the magnitudes of the
\* sign-marked tokens of the text and its positives the magnitudes of all
\* other tokens, each in descending order, also for a text with sign-marked
\* tokens only.
C17_EveryTokenClassified ==
    \A i \in Analysed :
        LET ms == Matches(temp_dir[results[i][1]])
        IN  /\ DataOf(i).discounts = SortDesc(MagnitudesOf(ms, TRUE))
            /\ DataOf(i).positive_amounts = SortDesc(MagnitudesOf(ms, FALSE))

\* C18: the resolver is started exactly for the documents whose analysis
\* gave NEEDS_INTERACTION, and once for each: the second pass opens the
\* dialogue for such a document and adds its record only when the dialogue
\* returns; for any other document it adds the record with the total and the
\* note of the analysis, without a prompt.
C18_ResolverIffNeedsInteraction ==
    [][ /\ (rstate = "Idle" /\ rstate' # "Idle") =>
               /\ pc = "interact" /\ pc' = "resolver" /\ rstate' = "AwaitChoice"
               /\ DataOf(Len(final_results) + 1).status = STATUS_NEEDS_INTERACTION
               /\ final_results' = final_results
        /\ (pc = "interact" /\ Len(final_results) < Len(results)) =>
               IF DataOf(Len(final_results) + 1).status = STATUS_NEEDS_INTERACTION
               THEN pc' = "resolver" /\ rstate' = "AwaitChoice"
               ELSE /\ pc' = "interact" /\ rstate' = "Idle"
                    /\ answer' = answer /\ out' = out
                    /\ final_results' =
                           Append(final_results,
                                  Record(results[Len(final_results) + 1][1],
                                         DataOf(Len(final_results) + 1).total,
                                         DataOf(Len(final_results) + 1).notes))
        /\ (pc = "resolver" /\ pc' # "resolver") =>
               Len(final_results') = Len(final_results) + 1
        /\ (pc = "resolver" /\ pc' = "resolver") => final_results' = final_results ]_vars

\* C18 witness: the dialogue is open for the second document after the
\* first, whose largest discount was applied by the analysis, got its record
\* without a prompt.
C18_Witness ==
    /\ pc = "resolver" /\ rstate = "AwaitChoice"
    /\ Len(final_results) = 1
    /\ final_results[1].notes.text = "Discounts found: {}. Applied -{}."
    /\ answer = <<>>

\* an answer the prompt the run is at does not accept
InvalidAnswer(line) ==
    \/ pc = "dup_yn" /\ Lower(line) \notin YesWords \cup NoWords
    \/ pc = "dup_which" /\ ~(PyInt(line).ok
                               /\ PyInt(line).val \in 1..(Len(hashes[gi].filenames) + 1))
    \/ pc = "resolver" /\ rstate = "AwaitChoice" /\ InvalidChoice(line)
    \/ pc = "resolver" /\ rstate = "ManualEntry" /\ ~PyFloat(line).ok
InDialogue == pc \in {"dup_yn", "dup_which"} \/ (pc = "resolver" /\ rstate # "Resolved")

\* C19: with an operator who eventually gives a valid answer at each prompt,
\* every run reaches its end, the exit after duplicates or the report; and
\* an invalid answer never ends a dialogue: the run is still in the dialogue
\* of the same group or document, with nothing deleted and no record added.
C19_DialoguesEndWhenAnswered ==
    /\ <>(pc \in {"exit", "done"})
    /\ [][ (InDialogue /\ InvalidAnswer(answer')) =>
               /\ InDialogue'
               /\ gi' = gi /\ pdf_dir' = pdf_dir
               /\ final_results' = final_results /\ final_total' = None ]_vars

\* C19 witness: the run has reached its report after a dialogue that was at
\* ManualEntry was answered with an amount.
C19_Witness ==
    /\ pc = "done"
    /\ answer \in AmountAnswers /\ PyFloat(answer).ok
    /\ \E i \in 1..Len(final_results) : final_results[i].notes.text = "Manually entered total."

====
